---- MODULE Spec2Model ----
(***************************************************************************)
(* A model of the neurgo Neuron actor (neuron.go): the worker started by   *)
(* Run (priming of recurrent connections, the receive loop, the barrier,   *)
(* feedForward and scatterOutput with its direct self-loop recursion), the *)
(* Shutdown handshake, and the orchestrator and test drivers around it.    *)
(*                                                                         *)
(* Channels are Go channels: a send on a channel of capacity 0 is a        *)
(* rendezvous with a receiver that is blocked in a receive on it, a send   *)
(* on a buffered channel appends when there is room.  LayerIndex values    *)
(* are the source's values times 1000.                                     *)
(***************************************************************************)
EXTENDS Integers, Sequences, FiniteSets, TLC

VARIABLES
    scenario,   \* the topology and drivers this run was constructed with
    nrn,        \* per Neuron: the struct's fields and its worker's position
    Inbound,    \* Neuron.Inbound / the inbound records of a terminal node
    Outbound,   \* Neuron.Outbound / the outbound records of a driver node
    cxnChan,    \* OutboundConnection.DataChan of the record source -> target
    buf,        \* the messages buffered in each data channel
    script,     \* per driver: the payloads it still has to send
    sidx,       \* per driver: the outbound record its current payload is at
    taken,      \* per terminal node: the messages its reader has read
    act,        \* per terminal node: the Actuator's gathered inputs and outputs
    sd,         \* per Neuron: where the caller of Shutdown() is
    edits       \* the Connect/Disconnect calls the orchestrator may still make

vars == <<scenario, nrn, Inbound, Outbound, cxnChan, buf, script, sidx, taken, act, sd, edits>>

Nil == "nil"

NeuronIds == {"n1", "n2", "n3"}
SourceIds == {"s1", "s2", "s3"}
SinkIds == {"w1", "w2"}
Nodes == NeuronIds \cup SourceIds \cup SinkIds

\* Bounds of the model.
MaxSends == 1      \* how many times a driver repeats its payload list
MaxDepth == 3      \* nested feedForward calls before the Go stack is taken as exhausted
MaxInits == 1      \* calls of Init() on a neuron after its construction

-----------------------------------------------------------------------------
(* Sequence helpers *)

Range(s) == {s[i] : i \in 1..Len(s)}

RECURSIVE Repeat(_, _)
Repeat(s, k) == IF k = 0 THEN <<>> ELSE s \o Repeat(s, k - 1)

RECURSIVE RemoveFirst(_, _)
RemoveFirst(s, x) ==
    IF s = <<>> THEN <<>>
    ELSE IF Head(s) = x THEN Tail(s)
    ELSE <<Head(s)>> \o RemoveFirst(Tail(s), x)

RECURSIVE RemoveFirstFrom(_, _)
RemoveFirstFrom(s, id) ==
    IF s = <<>> THEN <<>>
    ELSE IF Head(s).NodeId = id THEN Tail(s)
    ELSE <<Head(s)>> \o RemoveFirstFrom(Tail(s), id)

-----------------------------------------------------------------------------
(* The constructed networks.  Each is a topology the repository's tests    *)
(* build (or the smallest variation of one that a claim is about), given   *)
(* as the field values after construction and before any Run.              *)

MaxPass == 2       \* passes the driver of the acyclic network injects

In(id, w) == [NodeId |-> id, Weights |-> w]

NoInbound == [n \in NeuronIds \cup SinkIds |-> <<>>]
NoOutbound == [n \in NeuronIds \cup SourceIds |-> <<>>]
NoPayloads == [s \in SourceIds |-> <<>>]
Unbuffered == [c \in NeuronIds \cup SinkIds |-> 0]
DefaultLayer == [x \in Nodes |-> IF x \in SourceIds THEN 0 ELSE IF x \in SinkIds THEN 500 ELSE 250]

Disconnect1(a, b) == [op |-> "disconnect", source |-> a, target |-> b, weights |-> <<>>]
Connect1(a, b, w) == [op |-> "connect", source |-> a, target |-> b, weights |-> w]

Scenarios ==
    {"running", "order", "dup", "edit", "shutdown", "cycle", "cycleEq", "pass", "self",
     "single", "mismatch", "unset", "remove", "unlink", "selfLoop",
     "layers", "actuator", "xnor", "stale",
     "recurrent", "steady"}

\* TestRunningNeuron: three senders, one wiretap, buffered channels.
CfgRunning ==
    [neurons |-> {"n1"}, LayerIndex |-> DefaultLayer,
     Bias |-> [n \in NeuronIds |-> 20],
     cap |-> [Unbuffered EXCEPT !["n1"] = 3, !["w1"] = 1],
     Inbound |-> [NoInbound EXCEPT !["n1"] =
                    <<In("s1", <<1, 1, 1, 1, 1>>), In("s2", <<1>>), In("s3", <<1>>)>>],
     Outbound |-> [NoOutbound EXCEPT !["n1"] = <<"w1">>,
                    !["s1"] = <<"n1">>, !["s2"] = <<"n1">>, !["s3"] = <<"n1">>],
     payloads |-> [NoPayloads EXCEPT !["s1"] = <<<<20, 20, 20, 20, 20>>>>,
                    !["s2"] = <<<<20>>>>, !["s3"] = <<<<20>>>>],
     repeat |-> MaxSends, gated |-> FALSE, edits |-> {}, shutdowns |-> {"n1"}]

\* Three senders with pairwise different weights and payloads, unbuffered.
CfgOrder ==
    [neurons |-> {"n1"}, LayerIndex |-> DefaultLayer,
     Bias |-> [n \in NeuronIds |-> 2],
     cap |-> Unbuffered,
     Inbound |-> [NoInbound EXCEPT !["n1"] =
                    <<In("s1", <<1>>), In("s2", <<2>>), In("s3", <<3>>)>>],
     Outbound |-> [NoOutbound EXCEPT !["n1"] = <<"w1">>,
                    !["s1"] = <<"n1">>, !["s2"] = <<"n1">>, !["s3"] = <<"n1">>],
     payloads |-> [NoPayloads EXCEPT !["s1"] = <<<<5>>>>,
                    !["s2"] = <<<<7>>>>, !["s3"] = <<<<11>>>>],
     repeat |-> MaxSends, gated |-> FALSE, edits |-> {}, shutdowns |-> {}]

\* One sender delivers two different values in a row, the other one value.
CfgDup ==
    [neurons |-> {"n1"}, LayerIndex |-> DefaultLayer,
     Bias |-> [n \in NeuronIds |-> 0],
     cap |-> [Unbuffered EXCEPT !["n1"] = 2, !["w1"] = 1],
     Inbound |-> [NoInbound EXCEPT !["n1"] = <<In("s1", <<1>>), In("s2", <<1>>)>>],
     Outbound |-> [NoOutbound EXCEPT !["n1"] = <<"w1">>,
                    !["s1"] = <<"n1">>, !["s2"] = <<"n1">>],
     payloads |-> [NoPayloads EXCEPT !["s1"] = <<<<5>>, <<6>>>>, !["s2"] = <<<<7>>>>],
     repeat |-> MaxSends, gated |-> FALSE, edits |-> {}, shutdowns |-> {}]

\* TestRemoveConnectionFromRunningNeuron: two senders, the first of which
\* never delivers and is disconnected; a third sender may be connected.
CfgEdit ==
    [neurons |-> {"n1"}, LayerIndex |-> DefaultLayer,
     Bias |-> [n \in NeuronIds |-> 10],
     cap |-> Unbuffered,
     Inbound |-> [NoInbound EXCEPT !["n1"] = <<In("s1", <<20>>), In("s2", <<20>>)>>],
     Outbound |-> [NoOutbound EXCEPT !["n1"] = <<"w1">>,
                    !["s1"] = <<"n1">>, !["s2"] = <<"n1">>],
     payloads |-> [NoPayloads EXCEPT !["s2"] = <<<<0>>>>],
     repeat |-> MaxSends, gated |-> FALSE,
     edits |-> {Disconnect1("s1", "n1"), Connect1("s3", "n1", <<20>>)},
     shutdowns |-> {}]

\* A neuron with two outbound connections whose readers may never read.
CfgShutdown ==
    [neurons |-> {"n1"}, LayerIndex |-> DefaultLayer,
     Bias |-> [n \in NeuronIds |-> 1],
     cap |-> Unbuffered,
     Inbound |-> [NoInbound EXCEPT !["n1"] = <<In("s1", <<1>>)>>],
     Outbound |-> [NoOutbound EXCEPT !["n1"] = <<"w1", "w2">>, !["s1"] = <<"n1">>],
     payloads |-> [NoPayloads EXCEPT !["s1"] = <<<<1>>>>],
     repeat |-> MaxSends, gated |-> FALSE, edits |-> {}, shutdowns |-> {"n1"}]

\* TestRecurrentNeuron: injector -> n1 -> n2 -> wiretap, and n2 -> n1, on
\* the unbuffered channels Neuron.Init allocates.
CfgCycle ==
    [neurons |-> {"n1", "n2"},
     LayerIndex |-> [DefaultLayer EXCEPT !["n1"] = 125, !["n2"] = 250],
     Bias |-> [n \in NeuronIds |-> 20],
     cap |-> Unbuffered,
     Inbound |-> [NoInbound EXCEPT
                    !["n1"] = <<In("s1", <<1, 1, 1, 1, 1>>), In("n2", <<1>>)>>,
                    !["n2"] = <<In("n1", <<1>>)>>],
     Outbound |-> [NoOutbound EXCEPT !["n1"] = <<"n2">>, !["n2"] = <<"w1", "n1">>,
                    !["s1"] = <<"n1">>],
     payloads |-> [NoPayloads EXCEPT !["s1"] = <<<<20, 20, 20, 20, 20>>>>],
     repeat |-> MaxSends, gated |-> FALSE, edits |-> {}, shutdowns |-> {"n2"}]

\* TestRecurrentNeuron with the channels the test makes: room for two
\* messages at n1, for one at n2 and for one at the wiretap.
CfgRecurrent ==
    [CfgCycle EXCEPT !.cap = [Unbuffered EXCEPT !["n1"] = 2, !["n2"] = 1, !["w1"] = 1],
                     !.shutdowns = {}]

\* The cycle on unbuffered channels with a sequence of inputs injected and
\* no shutdown requested.
CfgSteady ==
    [CfgCycle EXCEPT !.payloads = [NoPayloads EXCEPT !["s1"] =
                                    <<<<20, 20, 20, 20, 20>>, <<10, 10, 10, 10, 10>>>>],
                     !.shutdowns = {}]

\* The same cycle with both neurons in one layer.
CfgCycleEq == [CfgCycle EXCEPT !.LayerIndex = DefaultLayer, !.shutdowns = {}]

\* An acyclic network driven one pass at a time: sensor -> n1, sensor -> n2,
\* n1 -> n2, n2 -> actuator.
CfgPass ==
    [neurons |-> {"n1", "n2"},
     LayerIndex |-> [DefaultLayer EXCEPT !["n1"] = 250, !["n2"] = 350],
     Bias |-> [n \in NeuronIds |-> 10],
     cap |-> Unbuffered,
     Inbound |-> [NoInbound EXCEPT
                    !["n1"] = <<In("s1", <<20, 20>>)>>,
                    !["n2"] = <<In("s1", <<20, 20>>), In("n1", <<1>>)>>,
                    !["w1"] = <<In("n2", <<>>)>>],
     Outbound |-> [NoOutbound EXCEPT !["n1"] = <<"n2">>, !["n2"] = <<"w1">>,
                    !["s1"] = <<"n1", "n2">>],
     payloads |-> [NoPayloads EXCEPT !["s1"] = <<<<1, 1>>>>],
     repeat |-> MaxPass, gated |-> TRUE, edits |-> {}, shutdowns |-> {}]

\* A neuron with a connection to itself next to an external sender, on a
\* data channel with room for one message.
CfgSelf ==
    [neurons |-> {"n1"}, LayerIndex |-> DefaultLayer,
     Bias |-> [n \in NeuronIds |-> 1],
     cap |-> [Unbuffered EXCEPT !["n1"] = 1],
     Inbound |-> [NoInbound EXCEPT !["n1"] = <<In("s1", <<1>>), In("n1", <<1>>)>>],
     Outbound |-> [NoOutbound EXCEPT !["n1"] = <<"n1", "w1">>, !["s1"] = <<"n1">>],
     payloads |-> [NoPayloads EXCEPT !["s1"] = <<<<1>>>>],
     repeat |-> MaxSends, gated |-> FALSE,
     edits |-> {Disconnect1("s1", "n1")}, shutdowns |-> {}]

\* One inbound edge with five unit weights, bias 20.
CfgSingle ==
    [neurons |-> {"n1"}, LayerIndex |-> DefaultLayer,
     Bias |-> [n \in NeuronIds |-> 20],
     cap |-> Unbuffered,
     Inbound |-> [NoInbound EXCEPT !["n1"] = <<In("s1", <<1, 1, 1, 1, 1>>)>>],
     Outbound |-> [NoOutbound EXCEPT !["n1"] = <<"w1">>, !["s1"] = <<"n1">>],
     payloads |-> [NoPayloads EXCEPT !["s1"] = <<<<20, 20, 20, 20, 20>>>>],
     repeat |-> MaxSends, gated |-> FALSE, edits |-> {}, shutdowns |-> {}]

\* Two inbound edges; the payload on the first is shorter than its weights.
CfgMismatch ==
    [neurons |-> {"n1"}, LayerIndex |-> DefaultLayer,
     Bias |-> [n \in NeuronIds |-> 20],
     cap |-> Unbuffered,
     Inbound |-> [NoInbound EXCEPT !["n1"] = <<In("s1", <<1, 1>>), In("s2", <<1>>)>>],
     Outbound |-> [NoOutbound EXCEPT !["n1"] = <<"w1">>,
                    !["s1"] = <<"n1">>, !["s2"] = <<"n1">>],
     payloads |-> [NoPayloads EXCEPT !["s1"] = <<<<5>>>>, !["s2"] = <<<<7>>>>],
     repeat |-> MaxSends, gated |-> FALSE, edits |-> {}, shutdowns |-> {}]

\* TestRemoveConnection: sensor -> neuron1, sensor -> neuron2, and the
\* connection sensor -> neuron1 is removed.
CfgRemove ==
    [CfgPass EXCEPT !.repeat = MaxSends, !.gated = FALSE,
                    !.edits = {Disconnect1("s1", "n1")}]

\* A running neuron with two outbound connections, the second of which is
\* removed.
CfgUnlink ==
    [CfgShutdown EXCEPT !.Inbound = [@ EXCEPT !["w2"] = <<In("n1", <<>>)>>],
                        !.edits = {Disconnect1("n1", "w2")}, !.shutdowns = {}]

\* The neuron with a connection to itself on the unbuffered data channel
\* Neuron.Init allocates.
CfgSelfLoop == [CfgSelf EXCEPT !.cap = Unbuffered, !.edits = {}]

\* A neuron whose outbound list names, in this order, itself, a node of a
\* later layer, a neuron of an earlier layer and a node of its own layer.
CfgLayers ==
    [neurons |-> {"n1", "n2"},
     LayerIndex |-> [DefaultLayer EXCEPT !["n1"] = 250, !["n2"] = 125, !["w1"] = 500, !["w2"] = 250],
     Bias |-> [n \in NeuronIds |-> 20],
     cap |-> Unbuffered,
     Inbound |-> [NoInbound EXCEPT
                    !["n1"] = <<In("s1", <<1>>), In("n1", <<1>>)>>,
                    !["n2"] = <<In("n1", <<1>>)>>],
     Outbound |-> [NoOutbound EXCEPT !["n1"] = <<"n1", "w1", "n2", "w2">>,
                    !["s1"] = <<"n1">>],
     payloads |-> [NoPayloads EXCEPT !["s1"] = <<<<1>>>>],
     repeat |-> MaxSends, gated |-> FALSE, edits |-> {}, shutdowns |-> {}]

\* TestRemoveConnectionFromRunningActuator: two senders connected to one
\* actuator; the first may be disconnected and either may deliver.
CfgActuator ==
    [neurons |-> {}, LayerIndex |-> DefaultLayer,
     Bias |-> [n \in NeuronIds |-> 10],
     cap |-> Unbuffered,
     Inbound |-> [NoInbound EXCEPT !["w1"] = <<In("s1", <<>>), In("s2", <<>>)>>],
     Outbound |-> [NoOutbound EXCEPT !["s1"] = <<"w1">>, !["s2"] = <<"w1">>],
     payloads |-> [NoPayloads EXCEPT !["s1"] = <<<<1>>>>, !["s2"] = <<<<0>>>>],
     repeat |-> MaxSends, gated |-> FALSE,
     edits |-> {Disconnect1("s1", "w1")}, shutdowns |-> {}]

\* In a network with the sigmoid activation the values (payloads, biases,
\* outputs) are fixed-point numbers: v stands for v / Scale.  Weights stay
\* whole numbers.
Scale == 10000

\* XnorCortex / TestXnorCondensedNetwork: a 2-wide sensor, hidden neurons n1
\* (bias -30, weights [20,20]) and n2 (bias 10, weights [-20,-20]), output
\* neuron n3 (bias -10, weights [20] and [20]), one actuator; the four
\* training samples are injected one pass at a time.
CfgXnor ==
    [neurons |-> {"n1", "n2", "n3"},
     LayerIndex |-> [DefaultLayer EXCEPT !["n3"] = 350],
     Bias |-> [n \in NeuronIds |->
                IF n = "n1" THEN (-30) * Scale ELSE IF n = "n2" THEN 10 * Scale ELSE (-10) * Scale],
     cap |-> Unbuffered,
     Inbound |-> [NoInbound EXCEPT
                    !["n1"] = <<In("s1", <<20, 20>>)>>,
                    !["n2"] = <<In("s1", <<-20, -20>>)>>,
                    !["n3"] = <<In("n1", <<20>>), In("n2", <<20>>)>>,
                    !["w1"] = <<In("n3", <<>>)>>],
     Outbound |-> [NoOutbound EXCEPT !["s1"] = <<"n1", "n2">>,
                    !["n1"] = <<"n3">>, !["n2"] = <<"n3">>, !["n3"] = <<"w1">>],
     payloads |-> [NoPayloads EXCEPT !["s1"] =
                    <<<<0, Scale>>, <<Scale, Scale>>, <<Scale, 0>>, <<0, 0>>>>],
     repeat |-> 1, gated |-> TRUE, edits |-> {}, shutdowns |-> {}]

\* Two senders that both deliver, the second of which may be disconnected
\* at any moment: before it delivers, or after it delivered and before the
\* neuron fires.
CfgStale ==
    [neurons |-> {"n1"}, LayerIndex |-> DefaultLayer,
     Bias |-> [n \in NeuronIds |-> 10],
     cap |-> Unbuffered,
     Inbound |-> [NoInbound EXCEPT !["n1"] = <<In("s1", <<1>>), In("s2", <<1>>)>>],
     Outbound |-> [NoOutbound EXCEPT !["n1"] = <<"w1">>,
                    !["s1"] = <<"n1">>, !["s2"] = <<"n1">>],
     payloads |-> [NoPayloads EXCEPT !["s1"] = <<<<5>>>>, !["s2"] = <<<<7>>>>],
     repeat |-> MaxSends, gated |-> FALSE,
     edits |-> {Disconnect1("s2", "n1")}, shutdowns |-> {}]

\* The activation the neurons of a network are constructed with.
Activation(sc) == IF sc = "xnor" THEN "sigmoid" ELSE "identity"

\* A neuron constructed with one of the fields Run needs left unset.
CfgUnset == [CfgSingle EXCEPT !.payloads = [NoPayloads EXCEPT !["s1"] = <<<<1, 1, 1, 1, 1>>>>]]

\* What a construction may leave unset: a field of the struct, or the
\* channel of an outbound connection.
StructFields == {"NodeId", "Inbound", "Outbound", "Closing", "DataChan", "ActivationFunction"}
UnsetChoices(sc) ==
    IF sc = "unset" THEN {{f} : f \in StructFields \cup {"Outbound.DataChan"}} ELSE {{}}

Cfg(sc) ==
    CASE sc = "running" -> CfgRunning
      [] sc = "order" -> CfgOrder
      [] sc = "dup" -> CfgDup
      [] sc = "edit" -> CfgEdit
      [] sc = "shutdown" -> CfgShutdown
      [] sc = "cycle" -> CfgCycle
      [] sc = "cycleEq" -> CfgCycleEq
      [] sc = "pass" -> CfgPass
      [] sc = "self" -> CfgSelf
      [] sc = "single" -> CfgSingle
      [] sc = "mismatch" -> CfgMismatch
      [] sc = "unset" -> CfgUnset
      [] sc = "remove" -> CfgRemove
      [] sc = "unlink" -> CfgUnlink
      [] sc = "selfLoop" -> CfgSelfLoop
      [] sc = "layers" -> CfgLayers
      [] sc = "actuator" -> CfgActuator
      [] sc = "xnor" -> CfgXnor
      [] sc = "stale" -> CfgStale
      [] sc = "recurrent" -> CfgRecurrent
      [] sc = "steady" -> CfgSteady

Conf == Cfg(scenario)
Bias(n) == Conf.Bias[n]
LayerIndex(x) == Conf.LayerIndex[x]
Cap(c) == Conf.cap[c]

-----------------------------------------------------------------------------
(* Messages and the pending inputs (weightedInput slots).  A slot's inputs *)
(* are <<>> while nil and <<payload>> once a message was recorded.         *)

DataMessage(sender, inputs) == [SenderId |-> sender, Inputs |-> inputs]

createEmptyWeightedInputs(inbound) ==
    [i \in 1..Len(inbound) |->
        [senderNodeUUID |-> inbound[i].NodeId,
         weights |-> inbound[i].Weights,
         inputs |-> <<>>]]

recordInput(weightedInputs, dataMessage) ==
    [i \in 1..Len(weightedInputs) |->
        IF weightedInputs[i].senderNodeUUID = dataMessage.SenderId
        THEN [weightedInputs[i] EXCEPT !.inputs = <<dataMessage.Inputs>>]
        ELSE weightedInputs[i]]

receiveBarrierSatisfiedOf(weightedInputs) ==
    \A i \in 1..Len(weightedInputs) : weightedInputs[i].inputs # <<>>

\* Variants of the two methods that a plausible slip would produce: a
\* message recorded only in a slot that is still empty, and a message
\* recorded in the first empty slot whoever sent it.
receiveDataMessageKeepFirst(weightedInputs, dataMessage) ==
    [i \in 1..Len(weightedInputs) |->
        IF /\ weightedInputs[i].senderNodeUUID = dataMessage.SenderId
           /\ weightedInputs[i].inputs = <<>>
        THEN [weightedInputs[i] EXCEPT !.inputs = <<dataMessage.Inputs>>]
        ELSE weightedInputs[i]]

receiveDataMessageArrivalOrder(weightedInputs, dataMessage) ==
    [i \in 1..Len(weightedInputs) |->
        IF /\ weightedInputs[i].inputs = <<>>
           /\ \A j \in 1..(i - 1) : weightedInputs[j].inputs # <<>>
        THEN [weightedInputs[i] EXCEPT !.inputs = <<dataMessage.Inputs>>]
        ELSE weightedInputs[i]]

\* Neuron.receiveDataMessage / Neuron.receiveBarrierSatisfied: both work on
\* the neuron's weightedInputs field alone.
receiveDataMessage(weightedInputs, dataMessage) == recordInput(weightedInputs, dataMessage)

receiveBarrierSatisfied(weightedInputs) == receiveBarrierSatisfiedOf(weightedInputs)

RECURSIVE DotSum(_, _)
DotSum(a, b) == IF a = <<>> THEN 0 ELSE Head(a) * Head(b) + DotSum(Tail(a), Tail(b))

\* A dot product that cuts the longer vector to the length of the shorter.
DotProductTruncating(a, b) ==
    LET m == IF Len(a) < Len(b) THEN Len(a) ELSE Len(b)
    IN  [ok |-> TRUE, v |-> DotSum(SubSeq(a, 1, m), SubSeq(b, 1, m))]

\* vector.DotProduct: an error when the two lengths differ.
DotProduct(a, b) ==
    IF Len(a) # Len(b) THEN [ok |-> FALSE, v |-> 0] ELSE [ok |-> TRUE, v |-> DotSum(a, b)]

SlotInputs(w) == IF w.inputs = <<>> THEN <<>> ELSE w.inputs[1]

RECURSIVE weightedInputDotProductSum(_)
weightedInputDotProductSum(weightedInputs) ==
    IF weightedInputs = <<>> THEN [ok |-> TRUE, v |-> 0]
    ELSE LET d == DotProduct(SlotInputs(Head(weightedInputs)), Head(weightedInputs).weights)
             rest == weightedInputDotProductSum(Tail(weightedInputs))
         IN  IF d.ok /\ rest.ok THEN [ok |-> TRUE, v |-> d.v + rest.v]
             ELSE [ok |-> FALSE, v |-> 0]

\* Terms of the power series of the exponential that are summed.
ExpTerms == 12

\* The terms i, i + 1, .. of the series of e^(-f / Scale), prev being the
\* magnitude of term i - 1.
RECURSIVE ExpSeries(_, _, _, _)
ExpSeries(f, i, prev, sign) ==
    IF i > ExpTerms THEN 0
    ELSE LET term == (prev * f) \div (Scale * i)
         IN  sign * term + ExpSeries(f, i + 1, term, -sign)

\* e^(-t / Scale) for t >= 0, in fixed point.
RECURSIVE ExpNeg(_)
ExpNeg(t) ==
    IF t <= Scale THEN Scale + ExpSeries(t, 1, Scale, -1)
    ELSE (ExpNeg(Scale) * ExpNeg(t - Scale)) \div Scale

\* A sigmoid with the sign of its argument inverted: 1 / (1 + e^x).
SigmoidOfNegated(x) ==
    IF x >= 0 THEN LET e == ExpNeg(x) IN (e * Scale) \div (Scale + e)
    ELSE (Scale * Scale) \div (Scale + ExpNeg(-x))

\* Sigmoid: 1 / (1 + e^(-x)), in fixed point.
Sigmoid(x) ==
    IF x >= 0 THEN (Scale * Scale) \div (Scale + ExpNeg(x))
    ELSE LET e == ExpNeg(-x) IN (e * Scale) \div (Scale + e)

\* neuron.ActivationFunction.ActivationFunction: identityActivationFunction
\* in the tests of the worker, Sigmoid in the XNOR network.
ActivationFunction(x) == IF Activation(scenario) = "sigmoid" THEN Sigmoid(x) ELSE x

\* A computeScalarOutput that left out line 372, "output += neuron.Bias".
computeScalarOutputNoBias(n, weightedInputs) ==
    LET output == weightedInputDotProductSum(weightedInputs)
    IN  IF output.ok THEN [ok |-> TRUE, v |-> ActivationFunction(output.v)]
        ELSE output

computeScalarOutput(n, weightedInputs) ==
    LET output == weightedInputDotProductSum(weightedInputs)
    IN  IF output.ok THEN [ok |-> TRUE, v |-> ActivationFunction(output.v + Bias(n))]
        ELSE output

\* A classification that finds no connection recurrent.
NeverRecurrent(n, target) == FALSE

\* A classification that leaves out targets of the neuron's own layer.
IsConnectionRecurrentStrict(n, target) == LayerIndex(target) < LayerIndex(n)

IsConnectionRecurrent(n, target) == LayerIndex(target) <= LayerIndex(n)

\* A test for a self-addressed connection that never finds one.
NeverToSelf(n, target) == FALSE

\* "outboundConnection.NodeId.UUID == neuron.NodeId.UUID"
IsToSelf(n, target) == target = n

RECURSIVE SelectRecurrent(_, _)
SelectRecurrent(n, outbound) ==
    IF outbound = <<>> THEN <<>>
    ELSE (IF IsConnectionRecurrent(n, Head(outbound)) THEN <<Head(outbound)>> ELSE <<>>)
         \o SelectRecurrent(n, Tail(outbound))

\* A neuron that finds none of its outbound connections recurrent.
NoRecurrentConnections(n) == <<>>

RecurrentOutboundConnections(n) == SelectRecurrent(n, Outbound[n])

-----------------------------------------------------------------------------
(* The worker of one neuron.  A neuron's record holds the struct's fields, *)
(* the worker's position (pc, the recurrent connections still to prime,    *)
(* the scatterOutput frames of the nested feedForward calls) and a record  *)
(* of what the worker did (fired .. acks), which no action reads.          *)

NewNeuron(active, unset) ==
    [pc |-> IF active THEN "init" ELSE "none",
     err |-> "",
     Closing |-> IF "Closing" \in unset THEN Nil ELSE "open",
     DataChan |-> IF "DataChan" \in unset THEN Nil ELSE "open",
     wg |-> "set", wgCount |-> 1,
     inits |-> 0, allocs |-> 0,
     nilFields |-> unset \cap {"NodeId", "Inbound", "Outbound", "ActivationFunction"},
     unsetAtRun |-> {},
     weightedInputs |-> <<>>,
     plist |-> <<>>, pch |-> Nil,
     stack |-> <<>>,
     fired |-> 0, lastIn |-> <<>>, lastInbound |-> {}, lastOut |-> 0,
     cycle |-> <<>>, lastCycle |-> <<>>,
     recurrent |-> <<>>, primed |-> <<>>, consumed |-> 0, entered |-> FALSE,
     acks |-> 0]

Frame(conns, msg) ==
    [conns |-> conns, idx |-> 1, msg |-> msg, closed |-> FALSE, ch |-> "unread"]

Top(st) == st.stack[Len(st.stack)]
Pop(stack) == SubSeq(stack, 1, Len(stack) - 1)
SetTop(st, f) == [st EXCEPT !.stack = [@ EXCEPT ![Len(@)] = f]]

Panic(st, why) == [st EXCEPT !.pc = "panic", !.err = why]

closeChannels(st) == [st EXCEPT !.Closing = Nil, !.DataChan = Nil]

\* Run, lines 71-76: after the select, leave the loop when closed.
RunLoopNext(st, closed) ==
    IF closed THEN [closeChannels(st) EXCEPT !.pc = "done", !.wgCount = @ - 1]
    ELSE [st EXCEPT !.pc = "recv"]

\* A feedForward that left out line 201: the pending inputs stay as they
\* were at the firing.
feedForwardKeepInputs(n, st) ==
    LET out == computeScalarOutput(n, st.weightedInputs)
    IN  IF ~out.ok THEN Panic(st, "dotproduct")
        ELSE IF Len(st.stack) >= MaxDepth THEN Panic(st, "stack")
        ELSE [st EXCEPT
                !.stack = Append(@, Frame(Outbound[n], DataMessage(n, <<out.v>>))),
                !.pc = "scatter",
                !.fired = @ + 1,
                !.lastIn = st.weightedInputs,
                !.lastInbound = {Inbound[n][i].NodeId : i \in 1..Len(Inbound[n])},
                !.lastOut = out.v,
                !.lastCycle = st.cycle,
                !.cycle = <<>>]

\* A feedForward that empties the slots it has instead of rebuilding them
\* from the inbound list.
feedForwardEmptySlots(n, st) ==
    LET out == computeScalarOutput(n, st.weightedInputs)
    IN  IF ~out.ok THEN Panic(st, "dotproduct")
        ELSE IF Len(st.stack) >= MaxDepth THEN Panic(st, "stack")
        ELSE [st EXCEPT
                !.weightedInputs = [i \in 1..Len(@) |-> [@[i] EXCEPT !.inputs = <<>>]],
                !.stack = Append(@, Frame(Outbound[n], DataMessage(n, <<out.v>>))),
                !.pc = "scatter",
                !.fired = @ + 1,
                !.lastIn = st.weightedInputs,
                !.lastInbound = {Inbound[n][i].NodeId : i \in 1..Len(Inbound[n])},
                !.lastOut = out.v,
                !.lastCycle = st.cycle,
                !.cycle = <<>>]

\* feedForward up to its call of scatterOutput: the output is computed from
\* the pending inputs, the pending inputs are rebuilt from the inbound list
\* as it is now, and scatterOutput starts on the outbound list as it is now.
feedForward(n, st) ==
    LET out == computeScalarOutput(n, st.weightedInputs)
    IN  IF ~out.ok THEN Panic(st, "dotproduct")
        ELSE IF Len(st.stack) >= MaxDepth THEN Panic(st, "stack")
        ELSE [st EXCEPT
                !.weightedInputs = createEmptyWeightedInputs(Inbound[n]),
                !.stack = Append(@, Frame(Outbound[n], DataMessage(n, <<out.v>>))),
                !.pc = "scatter",
                !.fired = @ + 1,
                !.lastIn = st.weightedInputs,
                !.lastInbound = {Inbound[n][i].NodeId : i \in 1..Len(Inbound[n])},
                !.lastOut = out.v,
                !.lastCycle = st.cycle,
                !.cycle = <<>>]

\* scatterOutput from the top frame's position up to the next select: the
\* self-addressed connections are handled by direct calls (with feedForward
\* nested when the barrier is satisfied), a finished loop returns closed to
\* its caller, which is the self-loop branch of the enclosing scatterOutput
\* or the loop of Run.  The state the call starts from is a value: st is
\* bound to it once, however often the body reads it.
RECURSIVE scatterOutput(_, _)
scatterOutput(n, state) ==
    CHOOSE result \in {
        IF st.pc = "panic" THEN st
        ELSE IF st.stack = <<>> THEN st
        ELSE LET f == Top(st) IN
             IF f.idx > Len(f.conns)
             THEN LET rest == [st EXCEPT !.stack = Pop(@)]
                  IN  IF rest.stack = <<>> THEN RunLoopNext(rest, f.closed)
                      ELSE LET g == Top(rest)
                           IN  scatterOutput(n, SetTop(rest,
                                   [g EXCEPT !.closed = f.closed, !.idx = @ + 1, !.ch = "unread"]))
             ELSE IF IsToSelf(n, f.conns[f.idx])
             THEN LET got == [st EXCEPT
                                !.weightedInputs = receiveDataMessage(@, f.msg),
                                !.cycle = Append(@, f.msg)]
                  IN  IF receiveBarrierSatisfied(got.weightedInputs)
                      THEN scatterOutput(n, feedForward(n, got))
                      ELSE scatterOutput(n, SetTop(got, [f EXCEPT !.idx = @ + 1, !.ch = "unread"]))
             ELSE st
        : st \in {state}} : TRUE

\* A scatterOutput whose loop ends with its first completed select.
ScatterReturnsAfterSelect(n, st, closedNow) ==
    LET f == Top(st)
    IN  scatterOutput(n, SetTop(st,
            [f EXCEPT !.idx = Len(f.conns) + 1, !.ch = "unread",
                      !.closed = IF closedNow THEN TRUE ELSE @]))

\* The top frame's loop moves on to its next connection.
ScatterAdvance(n, st, closedNow) ==
    LET f == Top(st)
    IN  scatterOutput(n, SetTop(st,
            [f EXCEPT !.idx = @ + 1, !.ch = "unread",
                      !.closed = IF closedNow THEN TRUE ELSE @]))

\* Run, lines 63-68: a message taken from the data channel.
RunReceive(n, st, dataMessage) ==
    LET got == [st EXCEPT
                    !.weightedInputs = receiveDataMessage(@, dataMessage),
                    !.cycle = Append(@, dataMessage),
                    !.consumed = @ + 1]
    IN  IF receiveBarrierSatisfied(got.weightedInputs)
        THEN scatterOutput(n, feedForward(n, got))
        ELSE got

\* primeAllRecurrentOutbound returns its named result closed, which the
\* loop never assigns: the loop's "closed :=" declares a variable of its own.
primeAllReturn(closedInLoop) == FALSE

\* Run, lines 51-57, once primeAllRecurrentOutbound has returned.
AfterPriming(st, closedInLoop) ==
    IF primeAllReturn(closedInLoop)
    THEN [closeChannels(st) EXCEPT !.pc = "done", !.wgCount = @ - 1, !.plist = <<>>, !.pch = Nil]
    ELSE [st EXCEPT !.pc = "recv", !.plist = <<>>, !.pch = Nil, !.entered = TRUE]

\* A self-loop primer whose barrier test lets the worker go on.
PrimerBarrierIgnored(st) == st

\* primeRecurrentOutbound, lines 277-280: the barrier is satisfied by the
\* neuron's own primer, and logg.LogPanic ends the process.
PrimerSatisfiedBarrier(st) == Panic(st, "barrier")

\* primeAllRecurrentOutbound from the head of the connections still to be
\* primed up to the next select.
RECURSIVE primeAllRecurrentOutbound(_, _)
primeAllRecurrentOutbound(n, st) ==
    IF st.plist = <<>> THEN AfterPriming(st, FALSE)
    ELSE LET cxn == Head(st.plist)
             dataMessage == DataMessage(n, <<0>>)
         IN  IF IsToSelf(n, cxn)
             THEN LET got == [st EXCEPT
                                !.weightedInputs = receiveDataMessage(@, dataMessage),
                                !.cycle = Append(@, dataMessage),
                                !.primed = Append(@, cxn),
                                !.plist = Tail(@)]
                  IN  IF receiveBarrierSatisfied(got.weightedInputs)
                      THEN PrimerSatisfiedBarrier(got)
                      ELSE primeAllRecurrentOutbound(n, got)
             ELSE IF cxnChan[<<n, cxn>>] = Nil THEN Panic(st, "nilchan")
             ELSE [st EXCEPT !.pc = "prime", !.pch = cxnChan[<<n, cxn>>]]

validateOutbound(n) == \A i \in 1..Len(Outbound[n]) : cxnChan[<<n, Outbound[n][i]>>] # Nil

checkRunnable(n, st) ==
    /\ "NodeId" \notin st.nilFields
    /\ "Inbound" \notin st.nilFields
    /\ st.Closing # Nil
    /\ st.DataChan # Nil
    /\ "ActivationFunction" \notin st.nilFields
    /\ validateOutbound(n)

\* What is unset when Run is called (recorded; no action reads it).
UnsetNow(n, st) ==
    st.nilFields
    \cup (IF st.Closing = Nil THEN {"Closing"} ELSE {})
    \cup (IF st.DataChan = Nil THEN {"DataChan"} ELSE {})
    \cup (IF validateOutbound(n) THEN {} ELSE {"Outbound.DataChan"})

\* Run up to its first select.
RunStart(n, st) ==
    IF ~checkRunnable(n, st) THEN Panic([st EXCEPT !.unsetAtRun = UnsetNow(n, st)], "config")
    ELSE LET recurrentConnections == RecurrentOutboundConnections(n)
         IN  primeAllRecurrentOutbound(n,
                [st EXCEPT !.weightedInputs = createEmptyWeightedInputs(Inbound[n]),
                           !.plist = recurrentConnections,
                           !.recurrent = recurrentConnections,
                           !.unsetAtRun = UnsetNow(n, st)])

-----------------------------------------------------------------------------
(* The Actuator.  It gathers one vector from every sender of its inbound   *)
(* list as the list is now, then hands the vectors on as one combined      *)
(* output in the order of the list and starts the next gathering.          *)

NewActuator == [gathered |-> <<>>, outputs |-> <<>>]

\* The vector the actuator holds from sender: that of its latest message.
GatheredFrom(gathered, sender) ==
    LET at == {k \in 1..Len(gathered) : gathered[k].SenderId = sender}
    IN  IF at = {} THEN <<>>
        ELSE <<gathered[CHOOSE k \in at : \A j \in at : j <= k].Inputs>>

\* A barrier that any one gathered vector satisfies.
actuatorBarrierAnyOne(gathered, inbound) == gathered # <<>>

\* The dynamic barrier: a vector from every current inbound sender.
actuatorBarrierSatisfied(gathered, inbound) ==
    /\ inbound # <<>>
    /\ \A i \in 1..Len(inbound) : GatheredFrom(gathered, inbound[i].NodeId) # <<>>

\* The combined output: one entry per inbound record, in the list's order.
gatherInputs(gathered, inbound) ==
    [i \in 1..Len(inbound) |->
        [SenderId |-> inbound[i].NodeId,
         vector |-> GatheredFrom(gathered, inbound[i].NodeId)]]

\* The barrier is evaluated against the inbound list as it is now.
actuatorStep(a, inbound) ==
    IF actuatorBarrierSatisfied(a.gathered, inbound)
    THEN [gathered |-> <<>>, outputs |-> Append(a.outputs, gatherInputs(a.gathered, inbound))]
    ELSE a

actuatorReceive(a, dataMessage, inbound) ==
    actuatorStep([a EXCEPT !.gathered = Append(@, dataMessage)], inbound)

-----------------------------------------------------------------------------
(* The initial state: a constructed network, no worker started yet.        *)

Senders == NeuronIds \cup SourceIds
Receivers == NeuronIds \cup SinkIds

\* A channel looked up under the UUID of the sending node.
ChannelOfSource(source, target) == source

\* initOutboundConnections: the channel of the outbound record
\* source -> target is the one nodeIdToDataMsg holds under the target's
\* UUID, the target node's own data channel (the tests' struct literals
\* set the same channel by hand).
initOutboundConnections(source, target) == target

Init ==
    /\ scenario \in Scenarios
    /\ \E unset \in UnsetChoices(scenario) :
        /\ nrn = [n \in NeuronIds |-> NewNeuron(n \in Conf.neurons, unset)]
        /\ Inbound = [x \in DOMAIN Conf.Inbound |->
                        IF x \in NeuronIds /\ "Inbound" \in unset THEN <<>> ELSE Conf.Inbound[x]]
        /\ Outbound = [x \in DOMAIN Conf.Outbound |->
                        IF x \in NeuronIds /\ "Outbound" \in unset THEN <<>> ELSE Conf.Outbound[x]]
        /\ cxnChan = [p \in Senders \X Receivers |->
                        IF /\ p[2] \in Range(Conf.Outbound[p[1]])
                           /\ ~(p[1] \in NeuronIds /\ "Outbound.DataChan" \in unset)
                        THEN initOutboundConnections(p[1], p[2]) ELSE Nil]
    /\ buf = [c \in Receivers |-> <<>>]
    /\ script = [s \in SourceIds |-> Repeat(Conf.payloads[s], Conf.repeat)]
    /\ sidx = [s \in SourceIds |-> 1]
    /\ taken = [w \in SinkIds |-> <<>>]
    /\ act = [w \in SinkIds |-> NewActuator]
    /\ sd = [n \in NeuronIds |-> "none"]
    /\ edits = Conf.edits

\* A panic ends the process: nothing runs after it.
Fatal == \E n \in NeuronIds : nrn[n].pc = "panic"
Alive == ~Fatal

-----------------------------------------------------------------------------
(* Channel operations *)

\* A send on channel c completes without the environment: there is room in
\* the buffer, or the neuron owning the unbuffered channel is in the select
\* of its receive loop.
WorkerSendReady(c) ==
    /\ c \in Receivers
    /\ IF Cap(c) > 0 THEN Len(buf[c]) < Cap(c)
       ELSE c \in NeuronIds /\ nrn[c].pc = "recv"

\* A send on channel c completes because the reader of a terminal node's
\* unbuffered channel takes the message.
ReaderTakes(c) == c \in SinkIds /\ Cap(c) = 0

SendReady(c) == WorkerSendReady(c) \/ ReaderTakes(c)

\* The receiving side of a completed send of dataMessage on channel c, as
\* the new values of nrn (given the sender's side of it), buf and taken.
Deliver(c, dataMessage, nrnAfterSender) ==
    /\ buf' = IF Cap(c) > 0 THEN [buf EXCEPT ![c] = Append(@, dataMessage)] ELSE buf
    /\ taken' = IF ReaderTakes(c) THEN [taken EXCEPT ![c] = Append(@, dataMessage)] ELSE taken
    /\ act' = IF ReaderTakes(c)
              THEN [act EXCEPT ![c] = actuatorReceive(@, dataMessage, Inbound[c])]
              ELSE act
    /\ nrn' = IF Cap(c) = 0 /\ c \in NeuronIds
              THEN [nrnAfterSender EXCEPT ![c] = RunReceive(c, nrn[c], dataMessage)]
              ELSE nrnAfterSender

AtScatterSelect(n) ==
    /\ nrn[n].pc = "scatter"
    /\ Top(nrn[n]).ch # "unread"

\* The caller of Shutdown is blocked in its send on the Closing channel.
ClosingRequested(n) == sd[n] = "send" /\ nrn[n].Closing # Nil

\* A scatterOutput whose select had the send as its only case.
ScatterSelectSendOnly(n) == FALSE

\* The case "responseChan := <-neuron.Closing" of each of the three selects.
RunSelectClosing(n) == nrn[n].pc = "recv" /\ ClosingRequested(n)

PrimeSelectClosing(n) == nrn[n].pc = "prime" /\ ClosingRequested(n)

ScatterSelectClosing(n) == AtScatterSelect(n) /\ ClosingRequested(n)

Acknowledge(st) == [st EXCEPT !.acks = @ + 1]

\* Some worker can take a step that needs nothing from the environment.
WorkerCanStep(m) ==
    \/ nrn[m].pc = "init"
    \/ nrn[m].pc = "scatter" /\ Top(nrn[m]).ch = "unread"
    \/ AtScatterSelect(m) /\ WorkerSendReady(Top(nrn[m]).ch)
    \/ nrn[m].pc = "prime" /\ WorkerSendReady(nrn[m].pch)
    \/ nrn[m].pc = "recv" /\ buf[m] # <<>>
    \/ RunSelectClosing(m) \/ PrimeSelectClosing(m) \/ ScatterSelectClosing(m)

\* time.After(time.Second) fires only when the send has stayed blocked: no
\* worker has a step left that could unblock it.
Quiescent == \A m \in NeuronIds : ~WorkerCanStep(m)

-----------------------------------------------------------------------------
(* The worker's steps *)

\* go neuron.Run(): up to the first select.
Run(n) ==
    /\ Alive
    /\ nrn[n].pc = "init"
    /\ nrn' = [nrn EXCEPT ![n] = RunStart(n, nrn[n])]
    /\ UNCHANGED <<scenario, Inbound, Outbound, cxnChan, buf, script, sidx, taken, act, sd, edits>>

\* primeRecurrentOutbound, select case 1: the primer is sent.
PrimeSend(n) ==
    /\ Alive
    /\ nrn[n].pc = "prime"
    /\ SendReady(nrn[n].pch)
    /\ LET st == nrn[n]
           sent == [st EXCEPT !.plist = Tail(@), !.primed = Append(@, Head(st.plist)), !.pch = Nil]
       IN  Deliver(st.pch, DataMessage(n, <<0>>),
                   [nrn EXCEPT ![n] = primeAllRecurrentOutbound(n, sent)])
    /\ UNCHANGED <<scenario, Inbound, Outbound, cxnChan, script, sidx, sd, edits>>

\* A primeRecurrentOutbound whose select had no time.After case.
PrimeWithoutTimeout(n) == FALSE

\* primeRecurrentOutbound, select case 2: the timeout.
PrimeTimeout(n) ==
    /\ Alive
    /\ nrn[n].pc = "prime"
    /\ Quiescent
    /\ nrn' = [nrn EXCEPT ![n] = Panic(@, "timeout")]
    /\ UNCHANGED <<scenario, Inbound, Outbound, cxnChan, buf, script, sidx, taken, act, sd, edits>>

\* primeRecurrentOutbound, select case 3: a shutdown request is accepted
\* and acknowledged, and primeAllRecurrentOutbound leaves its loop.
PrimeClosing(n) ==
    /\ Alive
    /\ PrimeSelectClosing(n)
    /\ nrn' = [nrn EXCEPT ![n] = AfterPriming(Acknowledge(@), TRUE)]
    /\ sd' = [sd EXCEPT ![n] = "acked"]
    /\ UNCHANGED <<scenario, Inbound, Outbound, cxnChan, buf, script, sidx, taken, act, edits>>

\* Run's select, case 1: a shutdown request is accepted and acknowledged.
RunClosing(n) ==
    /\ Alive
    /\ RunSelectClosing(n)
    /\ nrn' = [nrn EXCEPT ![n] = RunLoopNext(Acknowledge(@), TRUE)]
    /\ sd' = [sd EXCEPT ![n] = "acked"]
    /\ UNCHANGED <<scenario, Inbound, Outbound, cxnChan, buf, script, sidx, taken, act, edits>>

\* Run's select, case 2, on a buffered data channel.
RunSelectData(n) ==
    /\ Alive
    /\ nrn[n].pc = "recv"
    /\ buf[n] # <<>>
    /\ nrn' = [nrn EXCEPT ![n] = RunReceive(n, @, Head(buf[n]))]
    /\ buf' = [buf EXCEPT ![n] = Tail(@)]
    /\ UNCHANGED <<scenario, Inbound, Outbound, cxnChan, script, sidx, taken, act, sd, edits>>

\* scatterOutput enters the select for its current connection: the channel
\* operand outboundConnection.DataChan is evaluated.
ScatterLatch(n) ==
    /\ Alive
    /\ nrn[n].pc = "scatter"
    /\ LET f == Top(nrn[n])
       IN  /\ f.ch = "unread"
           /\ nrn' = [nrn EXCEPT ![n] = SetTop(@, [f EXCEPT !.ch = cxnChan[<<n, f.conns[f.idx]>>]])]
    /\ UNCHANGED <<scenario, Inbound, Outbound, cxnChan, buf, script, sidx, taken, act, sd, edits>>

\* scatterOutput's select, case 2: the message is sent.
ScatterSend(n) ==
    /\ Alive
    /\ AtScatterSelect(n)
    /\ SendReady(Top(nrn[n]).ch)
    /\ LET f == Top(nrn[n])
       IN  Deliver(f.ch, f.msg, [nrn EXCEPT ![n] = ScatterAdvance(n, @, FALSE)])
    /\ UNCHANGED <<scenario, Inbound, Outbound, cxnChan, script, sidx, sd, edits>>

\* scatterOutput's select, case 1: a shutdown request is accepted and
\* acknowledged; the break leaves the select, and the loop goes on.
ScatterClosing(n) ==
    /\ Alive
    /\ ScatterSelectClosing(n)
    /\ nrn' = [nrn EXCEPT ![n] = ScatterAdvance(n, Acknowledge(@), TRUE)]
    /\ sd' = [sd EXCEPT ![n] = "acked"]
    /\ UNCHANGED <<scenario, Inbound, Outbound, cxnChan, buf, script, sidx, taken, act, edits>>

-----------------------------------------------------------------------------
(* Shutdown(), as run by its caller *)

\* Shutdown is called: the caller blocks sending its reply channel.
ShutdownCall(n) ==
    /\ Alive
    /\ n \in Conf.shutdowns
    /\ sd[n] = "none"
    /\ nrn[n].pc \in {"init", "prime", "recv", "scatter"}
    /\ sd' = [sd EXCEPT ![n] = "send"]
    /\ UNCHANGED <<scenario, nrn, Inbound, Outbound, cxnChan, buf, script, sidx, taken, act, edits>>

\* The acknowledgment was received: shutdownOutboundConnections.
shutdownOutboundConnections(n) ==
    /\ Alive
    /\ sd[n] = "acked"
    /\ cxnChan' = [p \in DOMAIN cxnChan |->
                    IF p[1] = n /\ p[2] \in Range(Outbound[n]) THEN Nil ELSE cxnChan[p]]
    /\ sd' = [sd EXCEPT ![n] = "wait"]
    /\ UNCHANGED <<scenario, nrn, Inbound, Outbound, buf, script, sidx, taken, act, edits>>

\* wg.Wait() returns once Run has returned (its deferred wg.Done() has
\* run), and Shutdown sets neuron.wg to nil.
ShutdownReturn(n) ==
    /\ Alive
    /\ sd[n] = "wait"
    /\ nrn[n].pc = "done"
    /\ nrn[n].wgCount = 0
    /\ sd' = [sd EXCEPT ![n] = "returned"]
    /\ nrn' = [nrn EXCEPT ![n].wg = Nil]
    /\ UNCHANGED <<scenario, Inbound, Outbound, cxnChan, buf, script, sidx, taken, act, edits>>

\* The networks in which Init() is called again on a constructed neuron.
Reinitialised == {"single", "shutdown", "unset"}

\* An Init that allocates whatever the fields hold.
InitAllocatesAlways(st) ==
    [st EXCEPT !.Closing = "open", !.DataChan = "open", !.wg = "set",
               !.wgCount = 1,
               !.allocs = @ + 3,
               !.inits = @ + 1]

\* Neuron.Init: each of Closing, DataChan and wg is allocated only when it
\* is nil, and wg.Add(1) is called only on a wait-group allocated here.
InitFields(st) ==
    [st EXCEPT !.Closing = IF @ = Nil THEN "open" ELSE @,
               !.DataChan = IF @ = Nil THEN "open" ELSE @,
               !.wg = IF @ = Nil THEN "set" ELSE @,
               !.wgCount = IF st.wg = Nil THEN 1 ELSE @,
               !.allocs = @ + (IF st.Closing = Nil THEN 1 ELSE 0)
                            + (IF st.DataChan = Nil THEN 1 ELSE 0)
                            + (IF st.wg = Nil THEN 1 ELSE 0),
               !.inits = @ + 1]

\* neuron.Init() is called on a neuron that was constructed before.
NeuronInit(n) ==
    /\ Alive
    /\ scenario \in Reinitialised
    /\ n \in Conf.neurons
    /\ nrn[n].inits < MaxInits
    /\ nrn' = [nrn EXCEPT ![n] = InitFields(@)]
    /\ UNCHANGED <<scenario, Inbound, Outbound, cxnChan, buf, script, sidx, taken, act, sd, edits>>

-----------------------------------------------------------------------------
(* The drivers around the neurons: injectors and sensors that send, the    *)
(* readers of wiretaps and actuators, and the orchestrator's edits.        *)

InitialScript(s) == Repeat(Conf.payloads[s], Conf.repeat)

Actuators == {w \in SinkIds : Inbound[w] # <<>>}

\* Passes every actuator has completed: one message per inbound sender each.
PassesCompleted(s) ==
    IF Actuators = {} THEN Len(InitialScript(s))
    ELSE CHOOSE k \in 0..Len(InitialScript(s)) :
            /\ \A w \in Actuators : Len(taken[w]) >= k * Len(Inbound[w])
            /\ \/ k = Len(InitialScript(s))
               \/ \E w \in Actuators : Len(taken[w]) < (k + 1) * Len(Inbound[w])

PayloadsDone(s) == Len(InitialScript(s)) - Len(script[s])

\* Passes the driver has begun to inject.
PassesBegun(s) == PayloadsDone(s) + (IF sidx[s] > 1 THEN 1 ELSE 0)

\* A driver sends its current payload on its next outbound connection; a
\* sensor driven one pass at a time begins a payload only when every
\* actuator has completed the passes before it.
DriverSend(s) ==
    /\ Alive
    /\ script[s] # <<>>
    /\ sidx[s] <= Len(Outbound[s])
    /\ Conf.gated /\ sidx[s] = 1 => PassesCompleted(s) >= PayloadsDone(s)
    /\ LET c == cxnChan[<<s, Outbound[s][sidx[s]]>>]
           last == sidx[s] = Len(Outbound[s])
       IN  /\ SendReady(c)
           /\ Deliver(c, DataMessage(s, Head(script[s])), nrn)
           /\ script' = IF last THEN [script EXCEPT ![s] = Tail(@)] ELSE script
           /\ sidx' = [sidx EXCEPT ![s] = IF last THEN 1 ELSE @ + 1]
    /\ UNCHANGED <<scenario, Inbound, Outbound, cxnChan, sd, edits>>

\* The reader of a terminal node's buffered channel reads a message.
ReaderRead(w) ==
    /\ Alive
    /\ buf[w] # <<>>
    /\ taken' = [taken EXCEPT ![w] = Append(@, Head(buf[w]))]
    /\ act' = [act EXCEPT ![w] = actuatorReceive(@, Head(buf[w]), Inbound[w])]
    /\ buf' = [buf EXCEPT ![w] = Tail(@)]
    /\ UNCHANGED <<scenario, nrn, Inbound, Outbound, cxnChan, script, sidx, sd, edits>>

\* A Connect that sets the target's inbound list to the new record alone.
ConnectReplacing(e) ==
    /\ Alive
    /\ e.op = "connect"
    /\ Outbound' = [Outbound EXCEPT ![e.source] = Append(@, e.target)]
    /\ Inbound' = [Inbound EXCEPT ![e.target] = <<In(e.source, e.weights)>>]
    /\ cxnChan' = [cxnChan EXCEPT ![<<e.source, e.target>>] = e.target]
    /\ edits' = edits \ {e}
    /\ act' = [w \in SinkIds |-> actuatorStep(act[w], Inbound'[w])]
    /\ UNCHANGED <<scenario, nrn, buf, script, sidx, taken, sd>>

\* Connect(source, target, weights): an outbound record at the source, an
\* inbound record with the weights at the target, both on the target's
\* data channel.
Connect(e) ==
    /\ Alive
    /\ e.op = "connect"
    /\ Outbound' = [Outbound EXCEPT ![e.source] = Append(@, e.target)]
    /\ Inbound' = [Inbound EXCEPT ![e.target] = Append(@, In(e.source, e.weights))]
    /\ cxnChan' = [cxnChan EXCEPT ![<<e.source, e.target>>] = e.target]
    /\ edits' = edits \ {e}
    /\ act' = [w \in SinkIds |-> actuatorStep(act[w], Inbound'[w])]
    /\ UNCHANGED <<scenario, nrn, buf, script, sidx, taken, sd>>

\* A Disconnect that removes the last record of each list.
DisconnectLast(e) ==
    /\ Alive
    /\ e.op = "disconnect"
    /\ Outbound' = [Outbound EXCEPT ![e.source] = SubSeq(@, 1, Len(@) - 1)]
    /\ Inbound' = [Inbound EXCEPT ![e.target] = SubSeq(@, 1, Len(@) - 1)]
    /\ edits' = edits \ {e}
    /\ act' = [w \in SinkIds |-> actuatorStep(act[w], Inbound'[w])]
    /\ sidx' = [s \in SourceIds |-> IF s = e.source THEN 1 ELSE sidx[s]]
    /\ UNCHANGED <<scenario, nrn, cxnChan, buf, script, taken, sd>>

\* Disconnect(source, target): the matching records leave both lists.
Disconnect(e) ==
    /\ Alive
    /\ e.op = "disconnect"
    /\ Outbound' = [Outbound EXCEPT ![e.source] = RemoveFirst(@, e.target)]
    /\ Inbound' = [Inbound EXCEPT ![e.target] = RemoveFirstFrom(@, e.source)]
    /\ edits' = edits \ {e}
    /\ act' = [w \in SinkIds |-> actuatorStep(act[w], Inbound'[w])]
    /\ sidx' = [s \in SourceIds |-> IF s = e.source THEN 1 ELSE sidx[s]]
    /\ UNCHANGED <<scenario, nrn, cxnChan, buf, script, taken, sd>>

-----------------------------------------------------------------------------

Next ==
    \/ \E n \in NeuronIds :
        \/ Run(n)
        \/ PrimeSend(n)
        \/ PrimeTimeout(n)
        \/ PrimeClosing(n)
        \/ RunClosing(n)
        \/ RunSelectData(n)
        \/ ScatterLatch(n)
        \/ ScatterSend(n)
        \/ ScatterClosing(n)
        \/ ShutdownCall(n)
        \/ shutdownOutboundConnections(n)
        \/ ShutdownReturn(n)
        \/ NeuronInit(n)
    \/ \E s \in SourceIds : DriverSend(s)
    \/ \E w \in SinkIds : ReaderRead(w)
    \/ \E e \in edits : Connect(e) \/ Disconnect(e)

Spec == Init /\ [][Next]_vars

\* Scheduling: a started goroutine runs, and a worker (or the caller of
\* Shutdown) that can keep taking the same step takes it: a send or a
\* receive that stays possible completes, a select case that stays ready
\* is chosen.  Nothing is assumed of the drivers, the readers of terminal
\* nodes and the orchestrator.
WorkerFairness(n) ==
    /\ WF_vars(Run(n))
    /\ WF_vars(PrimeSend(n) /\ WorkerSendReady(nrn[n].pch))
    /\ WF_vars(PrimeTimeout(n))
    /\ WF_vars(PrimeClosing(n))
    /\ WF_vars(RunClosing(n))
    /\ WF_vars(RunSelectData(n))
    /\ WF_vars(ScatterLatch(n))
    /\ WF_vars(ScatterSend(n) /\ WorkerSendReady(Top(nrn[n]).ch))
    /\ WF_vars(ScatterClosing(n))
    /\ WF_vars(shutdownOutboundConnections(n))
    /\ WF_vars(ShutdownReturn(n))

FairSpec == Spec /\ \A n \in NeuronIds : WorkerFairness(n)

\* The scheduling of FairSpec with readers of terminal nodes that always
\* eventually read: a send to a terminal node that stays possible completes
\* and a message buffered for a terminal node is read.
ReaderFairSpec ==
    /\ FairSpec
    /\ \A n \in NeuronIds : WF_vars(ScatterSend(n))
    /\ \A w \in SinkIds : WF_vars(ReaderRead(w))

-----------------------------------------------------------------------------
(* Properties *)

ActiveNeurons == Conf.neurons

\* The pending inputs w hold a message from sender s.
HoldsFrom(w, s) == \E i \in 1..Len(w) : w[i].senderNodeUUID = s /\ w[i].inputs # <<>>

SetMax(S) == CHOOSE x \in S : \A y \in S : y <= x

\* The payload of the last message of log sent by s, as a slot's inputs.
LastFrom(log, s) ==
    LET at == {k \in 1..Len(log) : log[k].SenderId = s}
    IN  IF at = {} THEN <<>> ELSE <<log[SetMax(at)].Inputs>>

\* C1: a neuron fires only when its pending inputs hold a message from
\* every sender of its inbound connection list as it is at that firing.
C1_FiresOnlyWithEverySender ==
    \A n \in NeuronIds :
        nrn[n].fired > 0 => \A s \in nrn[n].lastInbound : HoldsFrom(nrn[n].lastIn, s)

\* C2: the worker waits in its receive loop with nothing delivered, s1 has
\* been disconnected and no other edit was made; the delivery from s2 that
\* it then consumes makes it fire, on an input set holding s2's entry only.
C2_BarrierShrink ==
    [][(/\ scenario = "edit"
        /\ Disconnect1("s1", "n1") \notin edits
        /\ Connect1("s3", "n1", <<20>>) \in edits
        /\ nrn["n1"].pc = "recv"
        /\ nrn["n1"].consumed = 0
        /\ nrn'["n1"].consumed = 1)
       => (/\ nrn'["n1"].fired = 1
           /\ Len(nrn'["n1"].lastIn) = 1
           /\ HoldsFrom(nrn'["n1"].lastIn, "s2"))]_vars

\* C3: a caller of Shutdown that is blocked sending its request is
\* eventually answered, wherever the worker is when the call is made.
C3_ShutdownAcknowledged ==
    \A n \in NeuronIds : (sd[n] = "send") ~> (nrn[n].acks >= 1 /\ sd[n] # "send")

\* C3 witness: a request was accepted and acknowledged in the middle of a
\* scatter, by the select of a send whose reader had not read.
C3_AckMidScatter ==
    /\ scenario = "shutdown"
    /\ nrn["n1"].acks = 1
    /\ nrn["n1"].pc = "scatter"
    /\ taken["w1"] = <<>>

\* C4: once the worker has acknowledged a shutdown request, the worker
\* terminates with the control and data channels released and Shutdown()
\* returns.
C4_ShutdownReturns ==
    \A n \in NeuronIds :
        (nrn[n].acks >= 1) ~>
            (/\ nrn[n].pc = "done"
             /\ nrn[n].Closing = Nil
             /\ nrn[n].DataChan = Nil
             /\ sd[n] = "returned")

\* C5: a worker that has acknowledged a shutdown request is never again in
\* a select that sends on an outbound connection.
C5_NoSendAfterAck ==
    \A n \in NeuronIds :
        nrn[n].acks >= 1 => ~(AtScatterSelect(n) \/ nrn[n].pc = "prime")

\* C6: in the two-neuron cycles on unbuffered channels no priming timeout
\* fires and the workers are never all stuck in their priming sends.
C6_RecurrentStartup ==
    scenario \in {"cycle", "cycleEq"} =>
        /\ \A n \in NeuronIds : nrn[n].err # "timeout"
        /\ ~(Quiescent /\ \A n \in ActiveNeurons : nrn[n].pc = "prime")

\* C7: a worker in its receive loop has sent one primer to each of its
\* recurrent outbound connections, in order, and a worker that has not
\* entered the loop has consumed nothing from its data channel.
C7_PrimedBeforeLoop ==
    \A n \in NeuronIds :
        /\ nrn[n].entered => nrn[n].primed = nrn[n].recurrent
        /\ ~nrn[n].entered => nrn[n].consumed = 0

\* C8: every slot of the pending inputs holds what the last message its
\* sender delivered in the current barrier cycle carried (nothing when it
\* delivered none), no two slots belong to one sender, and a firing used,
\* for every slot, the last message its sender delivered in that cycle.
C8_LastValueWins ==
    \A n \in NeuronIds :
        LET w == nrn[n].weightedInputs
            u == nrn[n].lastIn
        IN  /\ \A i \in 1..Len(w) : w[i].inputs = LastFrom(nrn[n].cycle, w[i].senderNodeUUID)
            /\ \A i, j \in 1..Len(w) : w[i].senderNodeUUID = w[j].senderNodeUUID => i = j
            /\ nrn[n].fired > 0 =>
                   \A i \in 1..Len(u) : u[i].inputs = LastFrom(nrn[n].lastCycle, u[i].senderNodeUUID)

\* C8 witness: s1 delivered twice before s2 did, and the neuron fired on
\* s1's second payload.
C8_SecondValueUsed ==
    /\ scenario = "dup"
    /\ nrn["n1"].fired = 1
    /\ Len(nrn["n1"].lastCycle) = 3
    /\ nrn["n1"].lastCycle[1].SenderId = "s1"
    /\ nrn["n1"].lastCycle[2].SenderId = "s1"
    /\ nrn["n1"].lastIn[1].inputs = <<nrn["n1"].lastCycle[2].Inputs>>
    /\ nrn["n1"].lastCycle[1].Inputs # nrn["n1"].lastCycle[2].Inputs

\* C9: in the acyclic network driven one pass at a time every neuron has
\* fired once for each completed pass and at most once more for the pass
\* under way.
C9_OncePerPass ==
    scenario = "pass" =>
        \A n \in ActiveNeurons :
            /\ PassesCompleted("s1") <= nrn[n].fired
            /\ nrn[n].fired <= PassesBegun("s1")

\* C9 witness: every pass was completed, each neuron firing once in each.
C9_AllPassesDone ==
    /\ scenario = "pass"
    /\ script["s1"] = <<>>
    /\ PassesCompleted("s1") = MaxPass
    /\ \A n \in ActiveNeurons : nrn[n].fired = MaxPass

SlotOf(w, s) == CHOOSE i \in 1..Len(w) : w[i].senderNodeUUID = s

\* The weighted sum of the messages of log, each taken with the weights of
\* its sender's slot of w.
RECURSIVE WeightedSumOf(_, _)
WeightedSumOf(log, w) ==
    IF log = <<>> THEN 0
    ELSE DotSum(Head(log).Inputs, w[SlotOf(w, Head(log).SenderId)].weights)
         + WeightedSumOf(Tail(log), w)

\* One message from each sender of the slots of w, and no other.
OneFromEach(log, w) ==
    /\ Len(log) = Len(w)
    /\ \A i \in 1..Len(w) : \E k \in 1..Len(log) : log[k].SenderId = w[i].senderNodeUUID

\* C10: a firing whose barrier cycle received one message from each inbound
\* sender scattered the bias plus the weighted sum of those messages, a
\* value that does not depend on the order they arrived in.
C10_ArrivalOrderIndependent ==
    \A n \in NeuronIds :
        (nrn[n].fired > 0 /\ OneFromEach(nrn[n].lastCycle, nrn[n].lastIn)) =>
            nrn[n].lastOut = ActivationFunction(Bias(n) + WeightedSumOf(nrn[n].lastCycle, nrn[n].lastIn))

\* C10 witness: the three messages arrived in an order that is not the
\* order of the inbound list.
C10_OutOfOrderArrival ==
    /\ scenario = "order"
    /\ nrn["n1"].fired = 1
    /\ OneFromEach(nrn["n1"].lastCycle, nrn["n1"].lastIn)
    /\ nrn["n1"].lastCycle[1].SenderId = "s3"
    /\ nrn["n1"].lastCycle[2].SenderId = "s1"
    /\ nrn["n1"].lastOut = ActivationFunction(Bias("n1") + WeightedSumOf(nrn["n1"].lastCycle, nrn["n1"].lastIn))

\* The sum, over the slots of w, of dot(payload, weights).
RECURSIVE SumOverEdges(_)
SumOverEdges(w) ==
    IF w = <<>> THEN 0
    ELSE DotSum(Head(w).inputs[1], Head(w).weights) + SumOverEdges(Tail(w))

\* C11: with the identity activation every firing scatters the bias plus the
\* sum over its inbound edges of dot(payload, weights): 120 for bias 20 and
\* one edge with weights [1,1,1,1,1] carrying [20,20,20,20,20], 160 for bias
\* 20 and three unit-weight edges carrying [20,20,20,20,20], [20], [20].
C11_OutputIsBiasPlusDots ==
    \A n \in NeuronIds :
        (nrn[n].fired > 0 /\ Activation(scenario) = "identity") =>
            /\ nrn[n].lastOut = Bias(n) + SumOverEdges(nrn[n].lastIn)
            /\ scenario = "single" => nrn[n].lastOut = 120
            /\ scenario = "running" => nrn[n].lastOut = 160

\* C11 witness: the wiretap received 120 from the one-edge neuron.
C11_Wiretap120 ==
    /\ scenario = "single"
    /\ nrn["n1"].fired = 1
    /\ Len(taken["w1"]) = 1
    /\ taken["w1"][1].Inputs = <<120>>

\* C12: no firing used a payload whose length differs from the length of
\* its edge's weights; where such a payload is pending when the barrier is
\* satisfied, the worker ends in the fatal error of the dot product and
\* nothing was scattered.
C12_MismatchIsFatal ==
    \A n \in NeuronIds :
        /\ nrn[n].fired > 0 =>
               \A i \in 1..Len(nrn[n].lastIn) :
                   Len(nrn[n].lastIn[i].inputs[1]) = Len(nrn[n].lastIn[i].weights)
        /\ (scenario = "mismatch" /\ n \in ActiveNeurons) =>
               /\ nrn[n].fired = 0
               /\ taken["w1"] = <<>>
               /\ (\A i \in 1..Len(Inbound[n]) :
                      Len(script[Inbound[n][i].NodeId]) < Len(InitialScript(Inbound[n][i].NodeId)))
                  => (nrn[n].pc = "panic" /\ nrn[n].err = "dotproduct")

\* C12 witness: both senders delivered and the worker died in the dot
\* product, the wiretap having received nothing.
C12_DiedInDotProduct ==
    /\ scenario = "mismatch"
    /\ nrn["n1"].consumed >= 2
    /\ nrn["n1"].err = "dotproduct"
    /\ taken["w1"] = <<>>

\* C13: a worker whose Run was called with the identity, the inbound list,
\* the outbound list, the control channel, the data channel or the
\* activation unset, or with an outbound connection that has no channel, is
\* dead of the configuration error, having sent no primer and received
\* nothing.
C13_UnsetFieldAborts ==
    \A n \in NeuronIds :
        (nrn[n].pc \notin {"none", "init"} /\ nrn[n].unsetAtRun # {}) =>
            /\ nrn[n].pc = "panic"
            /\ nrn[n].err = "config"
            /\ nrn[n].primed = <<>>
            /\ nrn[n].consumed = 0

\* C14: a worker in a priming send does not stay there (the send completes,
\* a shutdown request is accepted, or the timeout ends the process), and a
\* worker that accepted no shutdown request is in its receive loop only
\* with every recurrent connection primed.
C14_PrimingIsBounded ==
    /\ \A n \in NeuronIds : (nrn[n].pc = "prime") ~> (nrn[n].pc # "prime" \/ Fatal)
    /\ [](\A n \in NeuronIds :
            (nrn[n].entered /\ nrn[n].acks = 0) => nrn[n].primed = nrn[n].recurrent)

\* C14 witness: a worker whose recurrent target never received, with no
\* shutdown request made, died of the timeout without entering its loop.
C14_TimedOut ==
    /\ scenario = "cycleEq"
    /\ \E n \in ActiveNeurons :
        /\ nrn[n].err = "timeout"
        /\ nrn[n].recurrent # <<>>
        /\ nrn[n].primed = <<>>
        /\ ~nrn[n].entered
        /\ sd[n] = "none"

\* The step applies the connection edit e.
Applies(e) == e \in edits /\ edits' = edits \ {e}

OutboundWithout(l, x) == LET Keep(y) == y # x IN SelectSeq(l, Keep)

\* The inbound records of list l that do not come from node x, in order.
InboundWithout(l, x) == LET Keep(r) == r.NodeId # x IN SelectSeq(l, Keep)

StartsSend(n) ==
    /\ nrn[n].pc = "scatter"
    /\ Top(nrn[n]).ch = "unread"
    /\ nrn'[n].pc = "scatter"
    /\ Len(nrn'[n].stack) = Len(nrn[n].stack)
    /\ Top(nrn'[n]).idx = Top(nrn[n]).idx
    /\ Top(nrn'[n]).ch # "unread"

\* C17: a worker starts a send only on a record that is in its outbound
\* list at that moment: never on a record a Disconnect has removed.
C17_NoSendOnRemovedRecord ==
    [][\A n \in NeuronIds :
        StartsSend(n) => Top(nrn[n]).conns[Top(nrn[n]).idx] \in Range(Outbound[n])]_vars

\* Messages of log that neuron n sent.
FromSelf(log, n) == {k \in 1..Len(log) : log[k].SenderId = n}

\* C18: a worker is never in a select that sends on its own data channel or
\* to a connection addressed to itself, in priming or in scatter, and no
\* message of a neuron is ever in flight on that neuron's own channel.
C18_NoSendToSelf ==
    \A n \in NeuronIds :
        /\ nrn[n].pc = "prime" => (nrn[n].pch # n /\ Head(nrn[n].plist) # n)
        /\ AtScatterSelect(n) =>
               (Top(nrn[n]).ch # n /\ Top(nrn[n]).conns[Top(nrn[n]).idx] # n)
        /\ FromSelf(buf[n], n) = {}

\* C18 witness: on unbuffered channels the neuron recorded its own primer
\* and its own output directly, and went on to deliver to the wiretap.
C18_SelfLoopPassed ==
    /\ scenario = "selfLoop"
    /\ nrn["n1"].recurrent = <<"n1">>
    /\ nrn["n1"].primed = <<"n1">>
    /\ nrn["n1"].fired = 1
    /\ FromSelf(nrn["n1"].lastCycle, "n1") # {}
    /\ FromSelf(nrn["n1"].cycle, "n1") # {}
    /\ nrn["n1"].consumed = 1
    /\ Len(taken["w1"]) = 1

\* The records of the outbound list l whose target's layer position is at
\* most that of n, in the order of l.
NotLaterThan(n, l) == LET Keep(t) == LayerIndex(t) <= LayerIndex(n) IN SelectSeq(l, Keep)

SendersOf(inbound) == [i \in 1..Len(inbound) |-> inbound[i].NodeId]

\* C20: whenever an actuator produces a combined output, the output has one
\* entry per sender connected to it at that moment, in the order of its
\* inbound list, each holding that sender's vector; and an actuator that
\* waits for senders s1 and s2 produces, once s1 is disconnected, an output
\* of exactly one entry at the delivery from s2.
C20_ActuatorGathersCurrentSenders ==
    [][\A w \in SinkIds :
        /\ Len(act'[w].outputs) > Len(act[w].outputs) =>
            LET output == act'[w].outputs[Len(act'[w].outputs)]
            IN  /\ [i \in 1..Len(output) |-> output[i].SenderId] = SendersOf(Inbound'[w])
                /\ \A i \in 1..Len(output) : output[i].vector # <<>>
        /\ ( /\ scenario = "actuator" /\ w = "w1"
             /\ SendersOf(Inbound[w]) = <<"s2">>
             /\ act[w].outputs = <<>>
             /\ Len(taken'[w]) > Len(taken[w])
             /\ taken'[w][Len(taken'[w])].SenderId = "s2" )
           => /\ Len(act'[w].outputs) = 1
              /\ Len(act'[w].outputs[1]) = 1
              /\ act'[w].outputs[1][1] = [SenderId |-> "s2", vector |-> <<<<0>>>>]
    ]_vars

\* C20 witness: the first sender never delivered and was disconnected, the
\* second delivered, and the actuator produced an output of one entry.
C20_UnblockedByDisconnect ==
    /\ scenario = "actuator"
    /\ edits = {}
    /\ script["s1"] # <<>>
    /\ taken["w1"] = <<DataMessage("s2", <<0>>)>>
    /\ Len(act["w1"].outputs) = 1
    /\ Len(act["w1"].outputs[1]) = 1

\* The value a fixed-point number stands for differs from that of another
\* by less than 0.01.
Within001(v, expected) == v - expected < Scale \div 100 /\ expected - v < Scale \div 100

\* The XNOR of a sample of two inputs that are 0 or 1.
XnorOf(sample) == IF sample[1] = sample[2] THEN Scale ELSE 0

\* C21: in the XNOR network every combined output the actuator produces
\* has one entry of one value, and the value for the k-th training sample
\* is within 0.01 of 0 for the samples (0,1) and (1,0) and within 0.01 of 1
\* for (1,1) and (0,0).
C21_XnorWithinTolerance ==
    scenario = "xnor" =>
        \A k \in 1..Len(act["w1"].outputs) :
            LET output == act["w1"].outputs[k]
                sample == InitialScript("s1")[k]
            IN  /\ Len(output) = 1
                /\ Len(output[1].vector[1]) = 1
                /\ Within001(output[1].vector[1][1], XnorOf(sample))

\* C21 witness: all four samples went through the network; the first gave
\* a value near 0 and the second a value near 1.
C21_FourSamplesVerified ==
    /\ scenario = "xnor"
    /\ script["s1"] = <<>>
    /\ Len(act["w1"].outputs) = 4
    /\ InitialScript("s1")[1] = <<0, Scale>>
    /\ Within001(act["w1"].outputs[1][1].vector[1][1], 0)
    /\ InitialScript("s1")[2] = <<Scale, Scale>>
    /\ Within001(act["w1"].outputs[2][1].vector[1][1], Scale)
    /\ \A n \in ActiveNeurons : nrn[n].fired = 4

\* C22: after a step in which a neuron fired, its pending inputs have one
\* slot per connection of its inbound list as the list is at the firing,
\* every slot is empty except that of a self-loop, which holds the output
\* of this firing and nothing else; the messages counted toward the next
\* cycle are that self-loop message alone, and no send of the firing's
\* output has begun.
C22_InputsResetAtFiring ==
    [][\A n \in NeuronIds :
        (nrn'[n].fired > nrn[n].fired) =>
            LET w == nrn'[n].weightedInputs
                own == DataMessage(n, <<nrn'[n].lastOut>>)
            IN  /\ [i \in 1..Len(w) |-> In(w[i].senderNodeUUID, w[i].weights)] = Inbound[n]
                /\ \A i \in 1..Len(w) :
                       \/ w[i].inputs = <<>>
                       \/ w[i].senderNodeUUID = n /\ w[i].inputs = <<own.Inputs>>
                /\ \A k \in 1..Len(nrn'[n].cycle) : nrn'[n].cycle[k] = own
                /\ nrn'[n].pc = "scatter" =>
                       (Top(nrn'[n]).ch = "unread" /\ Top(nrn'[n]).msg = own)
    ]_vars

\* C22 witness: a neuron with a self-loop fired and holds its own output as
\* the first input of the next cycle, the external slot being empty again.
C22_SelfOutputPending ==
    /\ scenario = "selfLoop"
    /\ nrn["n1"].fired = 1
    /\ nrn["n1"].weightedInputs[1].inputs = <<>>
    /\ nrn["n1"].weightedInputs[2].inputs = <<<<nrn["n1"].lastOut>>>>
    /\ nrn["n1"].cycle = <<DataMessage("n1", <<nrn["n1"].lastOut>>)>>
    /\ taken["w1"] = <<>>

\* The sum of dot(payload, weights) over the slots of w whose sender is in
\* the set of senders from.
RECURSIVE SumOverEdgesFrom(_, _)
SumOverEdgesFrom(w, from) ==
    IF w = <<>> THEN 0
    ELSE (IF Head(w).senderNodeUUID \in from
          THEN DotSum(Head(w).inputs[1], Head(w).weights) ELSE 0)
         + SumOverEdgesFrom(Tail(w), from)

\* C23: the output of a firing is the activation of the bias plus the
\* contributions of the senders that are in the inbound list at the firing,
\* and of no other sender.
C23_OnlyConnectedSendersContribute ==
    \A n \in NeuronIds :
        nrn[n].fired > 0 =>
            /\ \A i \in 1..Len(nrn[n].lastIn) :
                   nrn[n].lastIn[i].senderNodeUUID \in nrn[n].lastInbound
            /\ nrn[n].lastOut =
                   ActivationFunction(Bias(n) + SumOverEdgesFrom(nrn[n].lastIn, nrn[n].lastInbound))

\* The messages that have arrived at terminal node w, read or not.
ArrivedAt(w) == taken[w] \o buf[w]

\* C24: in TestRecurrentNeuron's network n1 fires for the first time on the
\* injected input and the zero-valued primer of n2, giving 120; the first
\* message at the wiretap is n2's output 140; and once the input has been
\* injected a message does arrive at the wiretap.
C24_RecurrentFirstOutput ==
    /\ [](scenario = "recurrent" =>
            /\ nrn["n1"].fired = 1 =>
                   /\ nrn["n1"].lastIn[2].senderNodeUUID = "n2"
                   /\ nrn["n1"].lastIn[2].inputs = <<<<0>>>>
                   /\ nrn["n1"].lastOut = 120
            /\ ArrivedAt("w1") # <<>> => ArrivedAt("w1")[1] = DataMessage("n2", <<140>>)
            /\ ~Fatal)
    /\ (scenario = "recurrent" /\ script["s1"] # InitialScript("s1"))
          ~> (ArrivedAt("w1") # <<>>)

\* C24 witness: the wiretap's reader read 140.
C24_WiretapRead140 ==
    /\ scenario = "recurrent"
    /\ nrn["n2"].primed = <<"n1">>
    /\ taken["w1"] # <<>>
    /\ taken["w1"][1] = DataMessage("n2", <<140>>)

\* C25: a worker that accepts and acknowledges a shutdown request in a
\* priming select has, after that step, released its control and data
\* channels and returned from Run, without having entered its receive loop.
C25_ShutdownWhilePriming ==
    [][\A n \in NeuronIds :
        (nrn[n].pc = "prime" /\ nrn'[n].acks > nrn[n].acks) =>
            /\ nrn'[n].pc = "done"
            /\ nrn'[n].Closing = Nil
            /\ nrn'[n].DataChan = Nil
            /\ ~nrn'[n].entered
    ]_vars

\* The worker is in one of the three selects that have the case
\* "responseChan := <-neuron.Closing".
ReadsClosing(n) == nrn[n].pc = "recv" \/ nrn[n].pc = "prime" \/ AtScatterSelect(n)

\* C26: a worker acknowledges each request it accepts once (the caller of
\* Shutdown is answered by the step that accepts its request), accepts at
\* most one request, and once it has acknowledged it is never again in a
\* select that receives from the control channel.
C26_OneAckThenNoControlRead ==
    \A n \in NeuronIds :
        /\ nrn[n].acks <= 1
        /\ nrn[n].acks = 1 <=> sd[n] \in {"acked", "wait", "returned"}
        /\ nrn[n].acks >= 1 => ~ReadsClosing(n)

\* Worker n is blocked in a scatter select that sends to neuron m.
BlockedSendingTo(n, m) == AtScatterSelect(n) /\ Top(nrn[n]).ch = m

PrimesSelf(n) == n \notin Range(nrn[n].primed) /\ n \in Range(nrn'[n].primed)

\* C28: a step that primes a neuron's self-loop does not make the neuron
\* fire; it records the primer [0] in the neuron's own slot, and the worker
\* is dead of the fatal error exactly when that satisfies the barrier, as
\* it does when the self-loop is the only inbound connection.  No neuron has
\* fired before it entered its receive loop.
C28_SelfPrimerNeverFires ==
    /\ [](\A n \in NeuronIds : ~nrn[n].entered => nrn[n].fired = 0)
    /\ [][\A n \in NeuronIds :
            PrimesSelf(n) =>
                LET w == nrn'[n].weightedInputs
                IN  /\ nrn'[n].fired = 0
                    /\ nrn'[n].stack = <<>>
                    /\ \A i \in 1..Len(w) : w[i].senderNodeUUID = n => w[i].inputs = <<<<0>>>>
                    /\ receiveBarrierSatisfied(w)
                          <=> (nrn'[n].pc = "panic" /\ nrn'[n].err = "barrier")
                    /\ SendersOf(Inbound[n]) = <<n>> => nrn'[n].err = "barrier"
       ]_vars

\* C28 witness: a neuron whose only inbound connection is its self-loop
\* died at priming without having fired.
C28_DiedAtSelfPrimer ==
    /\ scenario = "self"
    /\ SendersOf(Inbound["n1"]) = <<"n1">>
    /\ nrn["n1"].primed = <<"n1">>
    /\ nrn["n1"].pc = "panic"
    /\ nrn["n1"].err = "barrier"
    /\ nrn["n1"].fired = 0
    /\ nrn["n1"].weightedInputs[1].inputs = <<<<0>>>>

\* C29: the feedForward calls nested through the self-loop branch of
\* scatterOutput never go on until the stack is exhausted: no worker dies
\* of its recursion.
C29_FiringTerminates == \A n \in NeuronIds : nrn[n].err # "stack"

\* C30: a call of Init on a neuron whose control channel, data channel
\* and wait-group are all set allocates nothing and leaves the three and
\* the wait-group's count as they were; the worker's state, the messages in
\* the channels and the caller of Shutdown are as before the call.
C30_InitIdempotent ==
    [][\A n \in NeuronIds :
        ( /\ nrn'[n].inits > nrn[n].inits
          /\ nrn[n].Closing # Nil /\ nrn[n].DataChan # Nil /\ nrn[n].wg # Nil )
        => /\ nrn'[n] = [nrn[n] EXCEPT !.inits = nrn'[n].inits]
           /\ nrn'[n].allocs = nrn[n].allocs
           /\ nrn'[n].wgCount = nrn[n].wgCount
           /\ buf' = buf /\ sd' = sd /\ cxnChan' = cxnChan
    ]_vars

\* C30 witness: Init was called again on a neuron whose worker was waiting
\* in its receive loop with a shutdown request pending, and allocated
\* nothing.
C30_InitWhileRunning ==
    /\ scenario = "shutdown"
    /\ nrn["n1"].inits >= 1
    /\ nrn["n1"].allocs = 0
    /\ nrn["n1"].wgCount = 1
    /\ nrn["n1"].pc = "recv"
    /\ sd["n1"] = "send"

\* The inbound list of t has a record of sender s, and s's outbound record
\* to t has its channel set.
DeliversTo(s, t) ==
    /\ s \in Range(SendersOf(Inbound[t]))
    /\ cxnChan[<<s, t>>] # Nil

FromAt(n, w) ==
    LET arrived == ArrivedAt(w)
        IsFrom(m) == m.SenderId = n
    IN  SelectSeq(arrived, IsFrom)

\* The position of target c in a list of outbound connections.
PositionIn(conns, c) == CHOOSE j \in 1..Len(conns) : conns[j] = c

\* The firings of n that have returned from scatterOutput.
CompletedFirings(n) == nrn[n].fired - Len(nrn[n].stack)

\* The firings of n in progress whose scatter is past the connection to c.
FiringsPast(n, c) ==
    Cardinality({k \in 1..Len(nrn[n].stack) :
        LET f == nrn[n].stack[k]
        IN  c \in Range(f.conns) /\ PositionIn(f.conns, c) < f.idx})

\* The zero-valued primers n has sent to c before entering its loop.
PrimersTo(n, c) ==
    Cardinality({i \in 1..Len(nrn[n].primed) : nrn[n].primed[i] = c})

\* The worker of n completes the send of its scatter's current select.
ScatterSendStep(n) ==
    /\ AtScatterSelect(n)
    /\ nrn'[n].acks = nrn[n].acks
    /\ nrn'[n].stack # nrn[n].stack \/ nrn'[n].pc # nrn[n].pc

\* C32: for a neuron that has accepted no shutdown request, (1) every
\* message of a firing has the neuron as sender and one value, and with no
\* nested firing that value is the output just computed; (2) every terminal
\* node on the neuron's outbound list holds, besides the primers sent to it
\* before the loop, one message of the neuron for each completed firing and
\* for each firing in progress whose scatter is past that connection, and
\* none for a connection the scatter has not reached, each with one value,
\* the last with the last output once the firing has returned; (3) every send of a scatter delivers the firing's
\* message on the channel of the current connection of the list the firing
\* started with, and the scatter moves on by one connection.
C32_OneMessagePerConnection ==
    /\ [](\A n \in NeuronIds : nrn[n].acks = 0 =>
            /\ \A k \in 1..Len(nrn[n].stack) :
                    /\ nrn[n].stack[k].msg.SenderId = n
                    /\ Len(nrn[n].stack[k].msg.Inputs) = 1
            /\ Len(nrn[n].stack) = 1 => Top(nrn[n]).msg.Inputs = <<nrn[n].lastOut>>
            /\ Outbound[n] = Conf.Outbound[n] =>
                \A w \in Range(Outbound[n]) \cap SinkIds :
                    /\ Len(FromAt(n, w)) = PrimersTo(n, w) + CompletedFirings(n) + FiringsPast(n, w)
                    /\ \A i \in 1..Len(FromAt(n, w)) : Len(FromAt(n, w)[i].Inputs) = 1
                    /\ (nrn[n].stack = <<>> /\ nrn[n].fired > 0)
                       => FromAt(n, w)[Len(FromAt(n, w))].Inputs = <<nrn[n].lastOut>>)
    /\ [][\A n \in NeuronIds : (nrn[n].acks = 0 /\ ScatterSendStep(n)) =>
            LET f == Top(nrn[n])
                c == f.conns[f.idx]
            IN  /\ f.ch = c
                /\ IF c \in SinkIds
                   THEN taken'[c] \o buf'[c] = Append(ArrivedAt(c), f.msg)
                   ELSE IF Cap(c) > 0
                   THEN buf'[c] = Append(buf[c], f.msg)
                   ELSE nrn'[c].consumed = nrn[c].consumed + 1
                /\ \A x \in Receivers \ {c} : buf'[x] = buf[x]
                /\ \A x \in SinkIds \ {c} : taken'[x] = taken[x]
                /\ IF f.idx < Len(f.conns) /\ ~IsToSelf(n, f.conns[f.idx + 1])
                   THEN /\ Len(nrn'[n].stack) = Len(nrn[n].stack)
                        /\ Top(nrn'[n]) = [f EXCEPT !.idx = f.idx + 1, !.ch = "unread"]
                   ELSE f.idx = Len(f.conns) /\ Len(nrn[n].stack) = 1
                        => nrn'[n].stack = <<>> /\ nrn'[n].pc = "recv"
       ]_vars

\* C32 witness: a neuron with two outbound connections has completed a
\* firing that no shutdown request interrupted, and each of the two
\* terminal nodes holds the one message with the output.
C32_BothReceivedOutput ==
    /\ scenario = "shutdown"
    /\ nrn["n1"].acks = 0 /\ sd["n1"] = "none"
    /\ Outbound["n1"] = <<"w1", "w2">>
    /\ nrn["n1"].fired = 1 /\ nrn["n1"].stack = <<>>
    /\ FromAt("n1", "w1") = <<DataMessage("n1", <<nrn["n1"].lastOut>>)>>
    /\ FromAt("n1", "w2") = <<DataMessage("n1", <<nrn["n1"].lastOut>>)>>

====
